---------------------------- MODULE Spec2Model ----------------------------
(***************************************************************************)
(* Blackbox FS data recorder (src/blackbox.py): the DataRecorder sampling  *)
(* and flight-phase pipeline, and the Window_BB callbacks that drive it    *)
(* (toggle_recording, reset_data, record_loop).                            *)
(*                                                                         *)
(* Numbers.  A sample is an exact rational <<num, den>> in lowest terms    *)
(* (den > 0): readings are whole numbers <<v, 1>>, the values produced by  *)
(* interp1d are the exact linear interpolants (floating-point rounding of  *)
(* the interpolant is not modelled).  Elapsed time is counted in periods   *)
(* of the 250 ms timer since reset().                                      *)
(*                                                                         *)
(* Environment.  init_simconnect() is taken to succeed, and make_plot()    *)
(* and the open() of the JSON file are taken not to raise.                 *)
(***************************************************************************)
EXTENDS Integers, Sequences, FiniteSets, TLC

\* ------------------------------------------------------------------ bounds
\* Ticks per session in the whole-program specification.
MaxTicks == 6
\* Ticks per session in the two-channel specification.
MaxTicksTwo == 3
\* Length of the buffers the cleaning specification starts from.
MaxLen == 4
\* Ticks per session in the specification with the channel list edited.
MaxTicksSim == 2
\* Ticks the long session has behind it at the start, and its last tick.
HistoryStart == 98
MaxTicksHistory == 101

\* --------------------------------------------------------------- constants
\* The value SimConnect hands back for a failed read.
SENTINEL == -999999
\* Capacity of _airborne_list.
HistoryCap == 100

\* Readings a channel can deliver in the whole-program specification.
Values == {1}
\* Readings the buffers of the cleaning specification are made of.
CleanValues == {1, 4}
\* Channels registered with the recorder (DataRecorder(default_simvars)).
DefaultKeys == <<"G_FORCE">>
\* Channels of the buffers of the cleaning specification.
CleanKeys == <<"G_FORCE", "VERTICAL_SPEED">>

\* ---------------------------------------------------------------- numbers
Abs(n) == IF n < 0 THEN -n ELSE n

RECURSIVE GCD(_, _)
GCD(a, b) == IF b = 0 THEN a ELSE GCD(b, a % b)

\* The rational n/d (d # 0) in lowest terms with a positive denominator.
Rat(n, d) ==
    LET g == GCD(Abs(n), Abs(d))
        s == IF d < 0 THEN -1 ELSE 1
    IN  <<(s * n) \div g, (s * d) \div g>>

Num(v) == <<v, 1>>
SENT == Num(SENTINEL)

RatAdd(p, q) == Rat(p[1] * q[2] + q[1] * p[2], p[2] * q[2])
RatSub(p, q) == Rat(p[1] * q[2] - q[1] * p[2], p[2] * q[2])
\* p * (a / b) for integers a, b.
RatScale(p, a, b) == Rat(p[1] * a, p[2] * b)

\* -------------------------------------------------------------- sequences
\* Python's s[-n:].
LastN(s, n) ==
    IF Len(s) <= n THEN s ELSE SubSeq(s, Len(s) - n + 1, Len(s))

SliceM3M1_withCurrent(s) == LastN(s, 2)

\* Python's s[-3:-1].
SliceM3M1(s) ==
    LET w == LastN(s, 3)
    IN  IF Len(w) = 0 THEN w ELSE SubSeq(w, 1, Len(w) - 1)

Range(s) == {s[i] : i \in 1..Len(s)}

\* all(xs) and any(xs) over a list of booleans.
PyAll(xs) == \A i \in 1..Len(xs) : xs[i]
PyAny(xs) == \E i \in 1..Len(xs) : xs[i]

EmptyDict == [k \in {} |-> <<>>]


\* ------------------------------------------------------------------ state
VARIABLES
    recording,       \* Window_BB._recording
    btn_record,      \* _btn_record is in state "normal"
    btn_reset,       \* _btn_reset is in state "normal"
    loop_scheduled,  \* an after(250, record_loop) call is pending
    callback_error,  \* exception that escaped a callback since reset(), or ""
    has_init,        \* DataRecorder.has_init
    status,          \* DataRecorder._status
    has_airborne,    \* hasattr(self, "airborne")
    airborne,        \* DataRecorder.airborne (FALSE while the attribute is absent)
    airborne_list,   \* DataRecorder._airborne_list
    data_keys,       \* the keys of _data_dict in insertion order
    data_dict,       \* DataRecorder._data_dict
    time_elapsed,    \* DataRecorder._time_elapsed
    events,          \* DataRecorder._events
    landing_time,    \* DataRecorder._landing_time
    landing_data,    \* DataRecorder._landing_data
    takeoff_data,    \* DataRecorder._takeoff_data
    on_the_ground,   \* what aq.get("SIM_ON_GROUND") returned in the last tick
    json_written,    \* the last stop wrote the JSON document
    json_file,       \* the document it wrote
    fired,           \* history: the events fired since the last reset(), in order
    tree,            \* the rows of _tree_simvars: <<simvar, name, unit>>
    name_dict,       \* DataRecorder._name_dict
    unit_dict,       \* DataRecorder._unit_dict
    frm_newentries,  \* the children of _frm_newentries are in state "normal"
    btn_deleteitem,  \* _btn_deleteitem is in state "normal"
    json_diagnostics,\* the fields store_json() reported as not converted
    observed,        \* history: the airborne values pushed since the last reset()
    ref              \* history: the session of a recorder whose reset() had
                     \* cleared self.airborne, fed the same ground reads

vars == <<recording, btn_record, btn_reset, loop_scheduled, callback_error,
          has_init, status, has_airborne, airborne, airborne_list, data_keys,
          data_dict, time_elapsed, events, landing_time, landing_data,
          takeoff_data, on_the_ground, json_written, json_file, fired,
          tree, name_dict, unit_dict, frm_newentries, btn_deleteitem,
          json_diagnostics, observed, ref>>

uiVars == <<recording, btn_record, btn_reset>>
sessionVars == <<status, airborne_list, data_dict, time_elapsed, events,
                 landing_time, landing_data, takeoff_data, fired,
                 callback_error, observed, ref>>
exportVars == <<json_written, json_file, json_diagnostics>>
chanVars == <<tree, name_dict, unit_dict>>
ctlVars == <<frm_newentries, btn_deleteitem>>

\* The session a freshly constructed recorder is in after reset().
RefFresh ==
    [airborne |-> FALSE, list |-> <<FALSE>>, status |-> "starting",
     fired |-> <<>>]

\* ---------------------------------------------------------- DataRecorder
reset_keepsSnapshots ==
    /\ status' = "starting"
    /\ landing_time' = 0
    /\ airborne_list' = <<FALSE>>
    /\ time_elapsed' = <<>>
    /\ events' = <<>>
    /\ data_dict' = [k \in DOMAIN data_dict |-> <<>>]
    /\ fired' = <<>>
    /\ callback_error' = ""
    /\ observed' = <<>>
    /\ ref' = RefFresh
    /\ UNCHANGED <<has_airborne, airborne, data_keys, on_the_ground,
                   landing_data, takeoff_data>>

\* reset(): the assignments made when has_init holds.  self._airborne is
\* written here, but collect_latest_data reads self.airborne: that attribute
\* is left as it is.
reset ==
    /\ status' = "starting"
    /\ landing_time' = 0
    /\ airborne_list' = <<FALSE>>
    /\ time_elapsed' = <<>>
    /\ events' = <<>>
    /\ landing_data' = EmptyDict
    /\ takeoff_data' = EmptyDict
    /\ data_dict' = [k \in DOMAIN data_dict |-> <<>>]
    /\ fired' = <<>>
    /\ callback_error' = ""
    /\ observed' = <<>>
    /\ ref' = RefFresh
    /\ UNCHANGED <<has_airborne, airborne, data_keys, on_the_ground>>

\* What aq.get(key) does inside the try of the channel loop: it returns a
\* number (the sentinel included) or makes round() raise.
ReadOutcomes(V) ==
    {<<"value", v>> : v \in V \cup {SENTINEL}} \cup {<<"error", 0>>}

\* The sample the channel loop appends for an outcome.  Readings are whole
\* numbers, which round(x, 4) leaves as they are.
SampleOf(o) == IF o[1] = "error" THEN SENT ELSE Num(o[2])

\* A series after the try/except of the channel loop for the outcome o.
AppendSample_skip(item, o) ==
    IF o[1] = "error" THEN item ELSE Append(item, SampleOf(o))

AppendSample(item, o) == Append(item, SampleOf(o))

AirborneAfter_unchecked(g) == g = 0

\* self.airborne after the ground read g.
AirborneAfter(g) ==
    IF g = SENTINEL
    THEN (IF has_airborne THEN airborne ELSE FALSE)
    ELSE g = 0

PushAirborne_unbounded(b) == Append(airborne_list, b)

\* _airborne_list after the push of b.
PushAirborne(b) ==
    LET l == Append(airborne_list, b)
    IN  IF Len(l) > HistoryCap THEN Tail(l) ELSE l

TakeoffFires_anyStatus(b, l) ==
    /\ b
    /\ Len(l) > 2
    /\ PyAll(LastN(l, 3))

TakeoffFires_two(b, l) ==
    /\ b
    /\ status \in {"starting", "taxiing out"}
    /\ Len(l) > 2
    /\ PyAll(LastN(l, 2))

\* The condition under which the takeoff branch is taken, on the pushed
\* history l with airborne value b.
TakeoffFires(b, l) ==
    /\ b
    /\ status \in {"starting", "taxiing out"}
    /\ Len(l) > 2
    /\ PyAll(LastN(l, 3))

LandingFires_two(st, l, tk) ==
    /\ st = "flying"
    /\ ~PyAny(LastN(l, 2))
    /\ ~tk

\* The condition of the landing branch, st being _status after the takeoff
\* branch and tk telling whether "takeoff" is in _events.
LandingFires(st, l, tk) ==
    /\ st = "flying"
    /\ ~PyAny(LastN(l, 3))
    /\ ~tk

\* The landing snapshot of a series: np.array(item[-4:]) indexed by the
\* comparison of the LIST item with the sentinel, which is the scalar True,
\* so that nothing is filtered (the result is the window, as one row).
LandingSnapshot(item) == LastN(item, 4)

LandingData_noTime(dd, t) ==
    [k \in DOMAIN dd |-> LandingSnapshot(dd[k])]

\* _landing_data as the landing branch builds it at elapsed time t: the
\* field LANDING_TIME, then the snapshot of every channel.
LandingData(dd, t) ==
    [k \in DOMAIN dd \cup {"LANDING_TIME"} |->
        IF k = "LANDING_TIME" THEN <<Num(t)>> ELSE LandingSnapshot(dd[k])]

\* The events appended in a tick in which takeoff (tk) or landing (ld) fires.
FiredNow(tk, ld) ==
    (IF tk THEN <<"takeoff">> ELSE <<>>) \o (IF ld THEN <<"landing">> ELSE <<>>)

EventsAfter_stale(tk, ld) == events \o FiredNow(tk, ld)

\* _events at the end of a tick: emptied in its first statement, then
\* appended to by the two branches.
EventsAfter(tk, ld) == <<>> \o FiredNow(tk, ld)

\* The tick of collect_latest_data() on the session r of the reference
\* recorder, for the ground read g.
RefTick(r, g) ==
    LET b  == IF g = SENTINEL THEN r.airborne ELSE g = 0
        a  == Append(r.list, b)
        l  == IF Len(a) > HistoryCap THEN Tail(a) ELSE a
        tk == /\ b
              /\ r.status \in {"starting", "taxiing out"}
              /\ Len(l) > 2
              /\ PyAll(LastN(l, 3))
        st == IF tk THEN "flying" ELSE r.status
        ld == LandingFires(st, l, tk)
    IN  [airborne |-> b, list |-> l,
         status |-> IF ld THEN "rollout" ELSE st,
         fired |-> r.fired \o FiredNow(tk, ld)]

\* collect_latest_data() with the ground read returning g and the channel
\* reads having the outcomes rd.
collect_latest_data(g, rd) ==
    LET b  == AirborneAfter(g)
        l  == PushAirborne(b)
        dd == [k \in DOMAIN data_dict |-> AppendSample(data_dict[k], rd[k])]
        t  == Len(time_elapsed) + 1
        tk == TakeoffFires(b, l)
        st == IF tk THEN "flying" ELSE status
        ld == LandingFires(st, l, tk)
    IN  /\ on_the_ground' = g
        /\ airborne' = b
        /\ has_airborne' = TRUE
        /\ airborne_list' = l
        /\ data_dict' = dd
        /\ time_elapsed' = Append(time_elapsed, t)
        /\ takeoff_data' =
              IF tk THEN [k \in DOMAIN dd |-> SliceM3M1(dd[k])] ELSE takeoff_data
        /\ status' = IF ld THEN "rollout" ELSE st
        /\ landing_time' = IF ld THEN t ELSE landing_time
        /\ landing_data' = IF ld THEN LandingData(dd, t) ELSE landing_data
        /\ events' = EventsAfter(tk, ld)
        /\ fired' = fired \o FiredNow(tk, ld)
        /\ observed' = Append(observed, b)
        /\ ref' = RefTick(ref, g)
        /\ UNCHANGED data_keys

\* collect_latest_data() when aq.get("SIM_ON_GROUND") raises: only the
\* assignment before it has happened.
collect_latest_data_raises ==
    /\ events' = <<>>
    /\ UNCHANGED <<status, has_airborne, airborne, airborne_list, data_keys,
                   data_dict, time_elapsed, landing_time, landing_data,
                   takeoff_data, on_the_ground, fired, observed, ref>>


\* ------------------------------------------------------------ clean_data
\* The positions of y that hold a valid sample (np.where(y != -999999)).
ValidIdx(y) == {i \in 1..Len(y) : y[i] # SENT}

SetMax(S) == CHOOSE m \in S : \A x \in S : x <= m
SetMin(S) == CHOOSE m \in S : \A x \in S : m <= x

\* y after the two boundary assignments (y has a valid sample).
HoldEdges(y) ==
    LET n  == Len(y)
        y1 == IF y[n] = SENT THEN [y EXCEPT ![n] = y[SetMax(ValidIdx(y))]] ELSE y
    IN  IF y1[1] = SENT THEN [y1 EXCEPT ![1] = y1[SetMin(ValidIdx(y1))]] ELSE y1

\* f(x)[i] for f = interp1d(x[idx], y[idx]): the value at a knot, and between
\* two knots lo < i < hi the point of the line through them.
Interp(y, i) ==
    LET idx == ValidIdx(y)
    IN  IF i \in idx THEN y[i]
        ELSE LET lo == SetMax({j \in idx : j < i})
                 hi == SetMin({j \in idx : j > i})
             IN  RatAdd(RatScale(RatSub(y[hi], y[lo]), i - lo, hi - lo), y[lo])

CleanSeries_dropsFailed(item, single_ok) ==
    IF Len(item) = 0 \/ ValidIdx(item) = {}
    THEN [raised |-> TRUE, y |-> item]
    ELSE [raised |-> FALSE, y |-> SelectSeq(item, LAMBDA v : v # SENT)]

\* The body of the loop of clean_data for one series.  It raises IndexError
\* on an empty series (y[-1]) and on a series without a valid sample
\* (y[y != -999999][-1]).  With a single sample interp1d either accepts the
\* one knot or raises, depending on the SciPy release (single_ok); the except
\* branch then raises itself, from item[item != -999999], which is item[1].
CleanSeries(item, single_ok) ==
    IF Len(item) = 0 \/ ValidIdx(item) = {}
    THEN [raised |-> TRUE, y |-> item]
    ELSE LET y == HoldEdges(item)
         IN  IF Cardinality(ValidIdx(y)) < 2 /\ ~single_ok
             THEN [raised |-> TRUE, y |-> item]
             ELSE [raised |-> FALSE, y |-> [i \in 1..Len(y) |-> Interp(y, i)]]

\* clean_data() from the i-th key on: the first series that raises ends the
\* loop, and the series after it are not looked at.
RECURSIVE CleanFrom(_, _, _, _)
CleanFrom(i, ks, dd, single_ok) ==
    IF i > Len(ks) THEN [raised |-> FALSE, dd |-> dd]
    ELSE LET r == CleanSeries(dd[ks[i]], single_ok)
         IN  IF r.raised THEN [raised |-> TRUE, dd |-> dd]
             ELSE CleanFrom(i + 1, ks, [dd EXCEPT ![ks[i]] = r.y], single_ok)

clean_data(ks, dd, single_ok) == CleanFrom(1, ks, dd, single_ok)

\* ------------------------------------------------------------ store_json
\* item.tolist() raises on the float under the key LANDING_TIME, so that
\* field is left out; the one-row arrays of the other landing fields are
\* written as their row.
HasToList(key) == key # "LANDING_TIME"

store_json_dropsFailed(dd) == [f \in DOMAIN dd |-> dd[f]]

\* The document store_json() dumps for the buffer dd.
store_json(dd) ==
    LET lk  == {k \in DOMAIN landing_data : HasToList(k)}
        pre == [k \in lk |-> "LANDING_" \o k]
        dom == DOMAIN dd \cup {"ELAPSED_TIME"} \cup {pre[k] : k \in lk}
    IN  [f \in dom |->
            IF f \in DOMAIN dd THEN dd[f]
            ELSE IF f = "ELAPSED_TIME"
            THEN [i \in 1..Len(time_elapsed) |-> Num(time_elapsed[i])]
            ELSE landing_data[CHOOSE k \in lk : pre[k] = f]]

\* The fields for which store_json() prints "Attempted converting ...": in
\* the first loop the landing fields without tolist(), which are not added;
\* in the second loop every field of store_dict that is a list and not an
\* array (ELAPSED_TIME and the landing fields the first loop converted),
\* which keeps its value.  The series of dd are the arrays clean_data() made.
store_json_diagnostics(dd) ==
    {"LANDING_" \o k : k \in {j \in DOMAIN landing_data : ~HasToList(j)}}
        \cup (DOMAIN store_json(dd) \ DOMAIN dd)

\* ------------------------------------------------------------ set_simvars
\* "key in self._simvars" for a key of the tree: _simvars is the list of the
\* rows given to the constructor, each a list, and a string equals none of
\* them.
InSimvars(key) == FALSE

\* The keys of the rows sv, in order.
KeysOf(sv) == [i \in 1..Len(sv) |-> sv[i][1]]

\* set_simvars(simvars): every listed key that is not found in _simvars gets
\* an empty series and the name and unit of its row; then the keys that are
\* not listed are deleted from the three dictionaries.
set_simvars(sv) ==
    LET keys  == Range(KeysOf(sv))
        row   == [k \in keys |-> CHOOSE i \in 1..Len(sv) :
                     sv[i][1] = k /\ \A j \in 1..Len(sv) : sv[j][1] = k => j <= i]
        fresh == {k \in keys : ~InSimvars(k)}
        added == SelectSeq(KeysOf(sv), LAMBDA k : k \notin DOMAIN data_dict)
    IN  /\ data_dict' = [k \in (DOMAIN data_dict \cap keys) \cup fresh |->
                            IF k \in fresh THEN <<>> ELSE data_dict[k]]
        /\ name_dict' = [k \in (DOMAIN name_dict \cap keys) \cup fresh |->
                            IF k \in fresh THEN sv[row[k]][2] ELSE name_dict[k]]
        /\ unit_dict' = [k \in (DOMAIN unit_dict \cap keys) \cup fresh |->
                            IF k \in fresh THEN sv[row[k]][3] ELSE unit_dict[k]]
        /\ data_keys' = SelectSeq(data_keys, LAMBDA k : k \in keys) \o added

\* --------------------------------------------------------------- Window_BB
toggle_recording_start_keepsControls ==
    /\ btn_record
    /\ ~recording
    /\ recording' = TRUE
    /\ btn_reset' = FALSE
    /\ has_init' = TRUE
    /\ reset
    /\ json_written' = FALSE
    /\ json_file' = EmptyDict
    /\ json_diagnostics' = {}
    /\ UNCHANGED <<btn_record, loop_scheduled, chanVars, ctlVars>>

\* toggle_recording(), the branch that starts a recording.
toggle_recording_start ==
    /\ btn_record
    /\ ~recording
    /\ recording' = TRUE
    /\ frm_newentries' = FALSE
    /\ btn_reset' = FALSE
    /\ btn_deleteitem' = FALSE
    /\ has_init' = TRUE
    /\ reset
    /\ json_written' = FALSE
    /\ json_file' = EmptyDict
    /\ json_diagnostics' = {}
    /\ UNCHANGED <<btn_record, loop_scheduled, chanVars>>

\* make_plot(filename, tree_items) raises IndexError (tree_data[:,4]) when
\* no row is left to plot; the rows of the tree are checked.
make_plot_raises == tree = <<>>

\* toggle_recording(), the branch that stops it: clean_data(), make_plot(),
\* store_json().  An exception of clean_data() or make_plot() ends the
\* callback.
toggle_recording_stop ==
    /\ btn_record
    /\ recording
    /\ recording' = FALSE
    /\ frm_newentries' = TRUE
    /\ btn_reset' = TRUE
    /\ btn_deleteitem' = TRUE
    /\ btn_record' = FALSE
    /\ \E single_ok \in BOOLEAN :
          LET r == clean_data(data_keys, data_dict, single_ok)
              raised == r.raised \/ make_plot_raises
          IN  /\ data_dict' = r.dd
              /\ callback_error' = IF raised THEN "IndexError" ELSE callback_error
              /\ json_written' = ~raised
              /\ json_file' = IF raised THEN EmptyDict ELSE store_json(r.dd)
              /\ json_diagnostics' =
                    IF raised THEN {} ELSE store_json_diagnostics(r.dd)
    /\ UNCHANGED <<loop_scheduled, has_init, status, has_airborne, airborne,
                   airborne_list, data_keys, time_elapsed, events, landing_time,
                   landing_data, takeoff_data, on_the_ground, fired, observed,
                   ref, chanVars>>

toggle_recording == toggle_recording_start \/ toggle_recording_stop

\* reset_data(): reset() does nothing before init_simconnect().
reset_data ==
    /\ btn_reset
    /\ btn_record' = TRUE
    /\ IF has_init
       THEN reset
       ELSE UNCHANGED <<sessionVars, has_airborne, airborne, data_keys,
                        on_the_ground>>
    /\ json_written' = FALSE
    /\ json_file' = EmptyDict
    /\ json_diagnostics' = {}
    /\ UNCHANGED <<recording, btn_reset, loop_scheduled, has_init, chanVars,
                   ctlVars>>

\* What the user can have typed into the three entries of a new variable.
EntrySimvars == {"vertical speed", "VERTICAL_SPEED", "G_FORCE", ""}
EntryNames == {"Vertical speed", "VS"}
EntryUnits == {"ft/min"}

\* text.upper().replace(" ", "_") on the texts of EntrySimvars.
UpperUnderscore(text) ==
    IF text = "vertical speed" THEN "VERTICAL_SPEED" ELSE text

\* add_new_to_tree(): the command of the Add button, a child of
\* _frm_newentries.  An empty field or a simvar the tree already has ends it
\* with a message box; otherwise the row is inserted and set_simvars() is
\* given the rows of the tree.
add_new_to_tree ==
    /\ frm_newentries
    /\ \E text \in EntrySimvars, name \in EntryNames, unit \in EntryUnits :
          LET simvar == UpperUnderscore(text)
          IN  IF simvar = "" \/ simvar \in Range(KeysOf(tree))
              THEN UNCHANGED vars
              ELSE /\ tree' = Append(tree, <<simvar, name, unit>>)
                   /\ set_simvars(tree')
                   /\ UNCHANGED <<uiVars, ctlVars, exportVars, loop_scheduled,
                                  callback_error, has_init, status,
                                  has_airborne, airborne, airborne_list,
                                  time_elapsed, events, landing_time,
                                  landing_data, takeoff_data, on_the_ground,
                                  fired, observed, ref>>

\* remove_current_from_tree(): the command of _btn_deleteitem.  focus is the
\* index of the focused row, 0 when no row has the focus: delete("") then
\* raises TclError and set_simvars() is not reached.
remove_current_from_tree ==
    /\ btn_deleteitem
    /\ \E focus \in 0..Len(tree) :
          IF focus = 0
          THEN /\ callback_error' = "TclError"
               /\ UNCHANGED <<uiVars, ctlVars, exportVars, chanVars,
                              loop_scheduled, has_init, status, has_airborne,
                              airborne, airborne_list, data_keys, data_dict,
                              time_elapsed, events, landing_time, landing_data,
                              takeoff_data, on_the_ground, fired, observed, ref>>
          ELSE /\ tree' = [i \in 1..(Len(tree) - 1) |->
                             IF i < focus THEN tree[i] ELSE tree[i + 1]]
               /\ set_simvars(tree')
               /\ UNCHANGED <<uiVars, ctlVars, exportVars, loop_scheduled,
                              callback_error, has_init, status, has_airborne,
                              airborne, airborne_list, time_elapsed, events,
                              landing_time, landing_data, takeoff_data,
                              on_the_ground, fired, observed, ref>>

\* The ground reads that return.
GroundReads == {0, 1, SENTINEL}

RecordLoop_always(max_ticks) ==
    /\ loop_scheduled
    /\ \/ /\ ~has_init
          /\ UNCHANGED vars
       \/ /\ has_init
          /\ Len(time_elapsed) < max_ticks
          /\ \E g \in GroundReads :
             \E rd \in [DOMAIN data_dict -> ReadOutcomes(Values)] :
                collect_latest_data(g, rd)
          /\ UNCHANGED <<uiVars, loop_scheduled, callback_error, has_init,
                         exportVars, chanVars, ctlVars>>

\* record_loop(): the timer callback.  It re-arms the timer in its last
\* statement, which an exception of collect_latest_data() does not reach.
RecordLoop(max_ticks) ==
    /\ loop_scheduled
    /\ \/ /\ ~recording
          /\ UNCHANGED vars
       \/ /\ recording
          /\ Len(time_elapsed) < max_ticks
          /\ \E g \in GroundReads :
             \E rd \in [DOMAIN data_dict -> ReadOutcomes(Values)] :
                collect_latest_data(g, rd)
          /\ UNCHANGED <<uiVars, loop_scheduled, callback_error, has_init,
                         exportVars, chanVars, ctlVars>>
       \/ /\ recording
          /\ Len(time_elapsed) < max_ticks
          /\ collect_latest_data_raises
          /\ loop_scheduled' = FALSE
          /\ callback_error' = "Exception"
          /\ UNCHANGED <<uiVars, has_init, exportVars, chanVars, ctlVars>>

record_loop == RecordLoop(MaxTicks)

\* ---------------------------------------------------------- specification
\* The rows of default_simvars for the channels of the model.
default_simvars ==
    [k \in {"G_FORCE", "VERTICAL_SPEED"} |->
        IF k = "G_FORCE" THEN <<"G_FORCE", "G-force", "g">>
        ELSE <<"VERTICAL_SPEED", "Vertical speed", "ft/min">>]

\* Window_BB(simvars) constructed with the channels ks and mainloop() entered.
InitWith(ks) ==
    /\ recording = FALSE
    /\ btn_record = TRUE
    /\ btn_reset = TRUE
    /\ loop_scheduled = TRUE
    /\ callback_error = ""
    /\ has_init = FALSE
    /\ status = "starting"
    /\ has_airborne = FALSE
    /\ airborne = FALSE
    /\ airborne_list = <<>>
    /\ data_keys = ks
    /\ data_dict = [k \in Range(ks) |-> <<>>]
    /\ time_elapsed = <<>>
    /\ events = <<>>
    /\ landing_time = 0
    /\ landing_data = EmptyDict
    /\ takeoff_data = EmptyDict
    /\ on_the_ground = 1
    /\ json_written = FALSE
    /\ json_file = EmptyDict
    /\ fired = <<>>
    /\ tree = [i \in 1..Len(ks) |-> default_simvars[ks[i]]]
    /\ name_dict = [k \in Range(ks) |-> default_simvars[k][2]]
    /\ unit_dict = [k \in Range(ks) |-> default_simvars[k][3]]
    /\ frm_newentries = TRUE
    /\ btn_deleteitem = TRUE
    /\ json_diagnostics = {}
    /\ observed = <<>>
    /\ ref = [RefFresh EXCEPT !.list = <<>>]

Init == InitWith(DefaultKeys)

Next ==
    \/ toggle_recording
    \/ reset_data
    \/ record_loop

Spec == Init /\ [][Next]_vars

TypeOK ==
    /\ recording \in BOOLEAN
    /\ status \in {"starting", "taxiing out", "flying", "rollout"}
    /\ DOMAIN data_dict = Range(data_keys)
    /\ Len(airborne_list) <= HistoryCap


\* The whole program with two registered channels, on short sessions.
InitTwo == InitWith(CleanKeys)

record_loop_two == RecordLoop(MaxTicksTwo)

NextTwo ==
    \/ toggle_recording
    \/ reset_data
    \/ record_loop_two

SpecTwo == InitTwo /\ [][NextTwo]_vars

\* The whole program with the channels added and removed between sessions
\* of at most MaxTicksSim ticks.
record_loop_sim == RecordLoop(MaxTicksSim)

NextSim ==
    \/ toggle_recording
    \/ reset_data
    \/ record_loop_sim
    \/ add_new_to_tree
    \/ remove_current_from_tree

SpecSim == Init /\ [][NextSim]_vars

\* A long session: HistoryStart ticks on the ground with valid reads are
\* behind it, and it goes on to tick MaxTicksHistory with any reads.
InitHistory ==
    /\ recording = TRUE
    /\ btn_record = TRUE
    /\ btn_reset = FALSE
    /\ loop_scheduled = TRUE
    /\ callback_error = ""
    /\ has_init = TRUE
    /\ status = "starting"
    /\ has_airborne = TRUE
    /\ airborne = FALSE
    /\ airborne_list = [i \in 1..(HistoryStart + 1) |-> FALSE]
    /\ data_keys = DefaultKeys
    /\ data_dict = [k \in Range(DefaultKeys) |-> [i \in 1..HistoryStart |-> Num(1)]]
    /\ time_elapsed = [i \in 1..HistoryStart |-> i]
    /\ events = <<>>
    /\ landing_time = 0
    /\ landing_data = EmptyDict
    /\ takeoff_data = EmptyDict
    /\ on_the_ground = 1
    /\ json_written = FALSE
    /\ json_file = EmptyDict
    /\ fired = <<>>
    /\ tree = [i \in 1..Len(DefaultKeys) |-> default_simvars[DefaultKeys[i]]]
    /\ name_dict = [k \in Range(DefaultKeys) |-> default_simvars[k][2]]
    /\ unit_dict = [k \in Range(DefaultKeys) |-> default_simvars[k][3]]
    /\ frm_newentries = FALSE
    /\ btn_deleteitem = FALSE
    /\ json_diagnostics = {}
    /\ observed = [i \in 1..HistoryStart |-> FALSE]
    /\ ref = [RefFresh EXCEPT !.list = [i \in 1..(HistoryStart + 1) |-> FALSE]]

record_loop_history == RecordLoop(MaxTicksHistory)

NextHistory ==
    \/ toggle_recording_stop
    \/ reset_data
    \/ record_loop_history

SpecHistory == InitHistory /\ [][NextHistory]_vars

\* The stop of a recording, from every buffer a session on the ground can have
\* filled: n ticks, each channel read valid or failed in any pattern.
CleanSamples == {Num(v) : v \in CleanValues} \cup {SENT}

InitClean ==
    \E n \in 0..MaxLen :
        /\ recording = TRUE
        /\ btn_record = TRUE
        /\ btn_reset = FALSE
        /\ loop_scheduled = TRUE
        /\ callback_error = ""
        /\ has_init = TRUE
        /\ status = "starting"
        /\ has_airborne = (n > 0)
        /\ airborne = FALSE
        /\ airborne_list = [i \in 1..(n + 1) |-> FALSE]
        /\ data_keys = CleanKeys
        /\ data_dict \in [Range(CleanKeys) -> [1..n -> CleanSamples]]
        /\ time_elapsed = [i \in 1..n |-> i]
        /\ events = <<>>
        /\ landing_time = 0
        /\ landing_data = EmptyDict
        /\ takeoff_data = EmptyDict
        /\ on_the_ground = 1
        /\ json_written = FALSE
        /\ json_file = EmptyDict
        /\ fired = <<>>
        /\ tree = [i \in 1..Len(CleanKeys) |-> default_simvars[CleanKeys[i]]]
        /\ name_dict = [k \in Range(CleanKeys) |-> default_simvars[k][2]]
        /\ unit_dict = [k \in Range(CleanKeys) |-> default_simvars[k][3]]
        /\ frm_newentries = FALSE
        /\ btn_deleteitem = FALSE
        /\ json_diagnostics = {}
        /\ observed = [i \in 1..n |-> FALSE]
        /\ ref = [RefFresh EXCEPT !.list = [i \in 1..(n + 1) |-> FALSE]]

NextClean == toggle_recording_stop

SpecClean == InitClean /\ [][NextClean]_vars


\* ------------------------------------------------------------ properties
\* A step in which collect_latest_data() ran to its end.
TickCompleted == Len(time_elapsed') = Len(time_elapsed) + 1

\* A step in which a recording was stopped (clean_data() was called).
StopStep == recording /\ ~recording'

Last(s) == s[Len(s)]

\* C1: while a recording runs, so after every completed tick, every channel
\* series is as long as the elapsed-time sequence, whatever reads failed.
C1_SeriesLengths ==
    recording =>
        \A k \in DOMAIN data_dict : Len(data_dict[k]) = Len(time_elapsed)

\* C1 witness: two ticks done, one channel read failed where the other did not.
C1_Witness ==
    /\ recording
    /\ Len(time_elapsed) = 2
    /\ data_dict["G_FORCE"] = <<Num(1), SENT>>
    /\ data_dict["VERTICAL_SPEED"] = <<SENT, Num(1)>>

C3_TakeoffDebounce ==
    [][TickCompleted /\ status \in {"starting", "taxiing out"} =>
          (("takeoff" \in Range(events') /\ status' = "flying")
              <=> (/\ Len(airborne_list') >= 3
                   /\ \A i \in (Len(airborne_list') - 2)..Len(airborne_list') :
                         airborne_list'[i]))
       /\ ("takeoff" \notin Range(events') => status' = status)]_vars

\* C3 witness: the history F,F,F,T,T,T, takeoff fired in the tick of the 3rd T.
C3_Witness ==
    /\ airborne_list = <<FALSE, FALSE, FALSE, TRUE, TRUE, TRUE>>
    /\ events = <<"takeoff">>
    /\ status = "flying"

\* C4: a tick whose ground read is the sentinel leaves the airborne boolean as
\* it was, any other tick sets it to the negation of the reading; the value is
\* the one pushed onto the history.
C4_GroundSentinelRetains ==
    [][TickCompleted =>
          /\ airborne' = (IF on_the_ground' = SENTINEL THEN airborne
                          ELSE on_the_ground' = 0)
          /\ Last(airborne_list') = airborne']_vars

\* C4 witness: the ground read failed while airborne, and airborne was kept.
C4_Witness ==
    /\ recording
    /\ on_the_ground = SENTINEL
    /\ airborne
    /\ Len(airborne_list) >= 3
    /\ Last(airborne_list)


\* The nearest valid sample of y before and after position i.
ValidBefore(y, i) == SetMax({j \in ValidIdx(y) : j < i})
ValidAfter(y, i) == SetMin({j \in ValidIdx(y) : j > i})

\* The point at position i of the line through the nearest valid samples of y
\* on either side of i.
LineThrough(y, i) ==
    LET lo == ValidBefore(y, i)
        hi == ValidAfter(y, i)
    IN  RatAdd(y[lo], RatScale(RatSub(y[hi], y[lo]), i - lo, hi - lo))

\* Series y cleaned into z as the cleaner is specified: same length, valid
\* samples kept, leading and trailing runs held at the nearest valid sample,
\* interior runs on the line through their valid neighbours.
CleanedAsSpecified(y, z) ==
    /\ Len(z) = Len(y)
    /\ \A i \in 1..Len(y) :
          z[i] = IF i \in ValidIdx(y) THEN y[i]
                 ELSE IF i < SetMin(ValidIdx(y)) THEN y[SetMin(ValidIdx(y))]
                 ELSE IF i > SetMax(ValidIdx(y)) THEN y[SetMax(ValidIdx(y))]
                 ELSE LineThrough(y, i)

\* C5: after clean_data has run at a stop, every series that had a valid
\* sample holds no sentinel, has kept its length and its valid samples.
C5_NoSentinelAfterClean ==
    [][StopStep =>
          \A k \in DOMAIN data_dict :
             ValidIdx(data_dict[k]) # {} =>
                /\ Len(data_dict'[k]) = Len(data_dict[k])
                /\ ValidIdx(data_dict'[k]) = 1..Len(data_dict[k])
                /\ \A i \in ValidIdx(data_dict[k]) :
                      data_dict'[k][i] = data_dict[k][i]]_vars

\* C6: clean_data does not raise on a series of sentinels only: it leaves that
\* series as it is and cleans the other channels.
C6_AllSentinelTolerated ==
    [][(StopStep /\ \E k \in DOMAIN data_dict :
                       Len(data_dict[k]) > 0 /\ ValidIdx(data_dict[k]) = {}) =>
          /\ callback_error' = callback_error
          /\ \A k \in DOMAIN data_dict :
                IF ValidIdx(data_dict[k]) = {}
                THEN data_dict'[k] = data_dict[k]
                ELSE CleanedAsSpecified(data_dict[k], data_dict'[k])]_vars

\* C7: in every series whose first and last samples are valid, clean_data
\* puts each interior sentinel on the line through the nearest valid samples
\* before and after it.
C7_InteriorInterpolated ==
    [][StopStep =>
          \A k \in DOMAIN data_dict :
             LET y == data_dict[k]
             IN  (Len(y) > 0 /\ y[1] # SENT /\ y[Len(y)] # SENT) =>
                    /\ Len(data_dict'[k]) = Len(y)
                    /\ \A i \in (1..Len(y)) \ ValidIdx(y) :
                          data_dict'[k][i] = LineThrough(y, i)]_vars

\* C8: in every series with a valid sample, clean_data sets every sentinel
\* before the first valid sample to that sample and every sentinel after the
\* last valid sample to that one.
C8_BoundaryHold ==
    [][StopStep =>
          \A k \in DOMAIN data_dict :
             LET y == data_dict[k]
             IN  ValidIdx(y) # {} =>
                    /\ Len(data_dict'[k]) = Len(y)
                    /\ \A i \in 1..Len(y) :
                          /\ i < SetMin(ValidIdx(y)) =>
                                data_dict'[k][i] = y[SetMin(ValidIdx(y))]
                          /\ i > SetMax(ValidIdx(y)) =>
                                data_dict'[k][i] = y[SetMax(ValidIdx(y))]]_vars

\* What the cleaner does do at a stop: every series before the first one on
\* which it raises is cleaned as specified, the others are left as they were;
\* if it does not raise, every series is cleaned as specified.
CleanDataEffect ==
    [][StopStep =>
          \E n \in 0..Len(data_keys) :
             /\ (n < Len(data_keys)) = (callback_error' = "IndexError")
             /\ json_written' = (n = Len(data_keys))
             /\ \A i \in 1..Len(data_keys) :
                   LET k == data_keys[i]
                   IN  IF i <= n
                       THEN /\ ValidIdx(data_dict[k]) # {}
                            /\ CleanedAsSpecified(data_dict[k], data_dict'[k])
                       ELSE data_dict'[k] = data_dict[k]]_vars


\* C9: no value of an exported document is the sentinel, in a channel series
\* or in a LANDING_ field.
C9_ExportHasNoSentinel ==
    json_written =>
        \A f \in DOMAIN json_file : SENT \notin Range(json_file[f])

\* C10: while a recording runs the timer stays armed, whatever read failed:
\* the next tick is always scheduled.
C10_LoopNeverStalls == recording => loop_scheduled


\* C11: every document store_json writes has the key ELAPSED_TIME, and its
\* sequence is as long as the sequence stored under every channel key.
C11_ElapsedTimeInDocument ==
    json_written =>
        /\ "ELAPSED_TIME" \in DOMAIN json_file
        /\ Len(json_file["ELAPSED_TIME"]) = Len(time_elapsed)
        /\ \A k \in DOMAIN data_dict :
              /\ k \in DOMAIN json_file
              /\ Len(json_file[k]) = Len(json_file["ELAPSED_TIME"])

\* C11 witness: the document of a two-channel session of three ticks.
C11_Witness ==
    /\ json_written
    /\ Len(json_file["ELAPSED_TIME"]) = 3
    /\ DOMAIN json_file = {"G_FORCE", "VERTICAL_SPEED", "ELAPSED_TIME"}
    /\ callback_error = ""
    /\ ~recording


\* Nothing of a session is held: the phase is starting, the series, the
\* elapsed times and the events are empty, there is no snapshot.
SessionCleared ==
    /\ status = "starting"
    /\ time_elapsed = <<>>
    /\ \A k \in DOMAIN data_dict : data_dict[k] = <<>>
    /\ events = <<>>
    /\ landing_data = EmptyDict
    /\ takeoff_data = EmptyDict

\* A step of toggle_recording() that starts a recording, or of reset_data()
\* after a stop.
ResetStep == (~recording /\ recording') \/ (~btn_record /\ btn_record')

\* C12: the phase is starting, and nothing of a session is held, initially
\* and after every reset and every start of a recording.
C12_ResetClearsSession == SessionCleared /\ [][ResetStep => SessionCleared']_vars

\* C12 witness: reset after a session that had ticks, before the next start.
C12_Witness ==
    /\ has_init
    /\ has_airborne
    /\ ~recording
    /\ btn_record
    /\ SessionCleared


\* C13: every stop of a recording that has sampled carries out the export,
\* also when a channel holds sentinels only.
C13_StopReachesExport ==
    [][(StopStep /\ Len(time_elapsed) > 0) => json_written']_vars


\* The last three entries of the history h are all false.
LastThreeFalse(h) ==
    \A i \in 1..Len(h) : i > Len(h) - 3 => ~h[i]

\* C14: a tick fires landing, and moves the phase to rollout, exactly when the
\* phase is flying (so takeoff does not fire in this tick) and the last 3
\* entries of the history, with the one of this tick, are all false.
C14_LandingDebounce ==
    [][TickCompleted =>
          /\ ("landing" \in Range(events'))
                <=> (status = "flying" /\ LastThreeFalse(airborne_list'))
          /\ ("landing" \in Range(events')) <=> (status' = "rollout" /\ status # "rollout")
          /\ (status' = "rollout" /\ status # "rollout") => status = "flying"]_vars

\* C14 witness: landing fired on the third ground observation after a flight.
C14_Witness ==
    /\ LastN(airborne_list, 4) = <<TRUE, FALSE, FALSE, FALSE>>
    /\ events = <<"landing">>
    /\ status = "rollout"
    /\ landing_time = Len(time_elapsed)

\* A step of record_loop() in which collect_latest_data() was called.
TickStarted == TickCompleted \/ (loop_scheduled /\ ~loop_scheduled')

\* C15: the events reported for a tick are those fired in it (takeoff: the
\* phase became flying in this tick, landing: it became rollout in this tick),
\* each at most once, and never both.
C15_EventsOfThisTick ==
    [][TickStarted =>
          /\ Len(events') <= 1
          /\ ("takeoff" \in Range(events'))
                <=> (status # "flying" /\ status' = "flying")
          /\ ("landing" \in Range(events'))
                <=> (status # "rollout" /\ status' = "rollout")]_vars

\* C15 witness: the tick after the one that fired takeoff reports no event.
C15_Witness ==
    /\ fired = <<"takeoff">>
    /\ events = <<>>
    /\ status = "flying"
    /\ recording


\* A step of collect_latest_data() in which landing fired.
LandingStep == TickCompleted /\ "landing" \in Range(events')

\* The samples of w that are not the sentinel, in order.
WithoutSentinel(w) == SelectSeq(w, LAMBDA v : v # SENT)

\* C16: when landing fires, the landing snapshot of every channel whose last 4
\* samples hold a valid one is these samples with every sentinel removed, so
\* that no entry of it is the sentinel.
C16_LandingSnapshotFiltered ==
    [][LandingStep =>
          \A k \in DOMAIN data_dict' :
              LET w == LastN(data_dict'[k], 4)
              IN  WithoutSentinel(w) # <<>> =>
                     /\ landing_data'[k] = WithoutSentinel(w)
                     /\ SENT \notin Range(landing_data'[k])]_vars

\* C17: when landing fires and the last 4 samples of a channel are all
\* sentinels, the landing snapshot of the channel is the one-element sequence
\* holding the sentinel.
C17_LandingSnapshotPlaceholder ==
    [][LandingStep =>
          \A k \in DOMAIN data_dict' :
              LET w == LastN(data_dict'[k], 4)
              IN  (Len(w) = 4 /\ WithoutSentinel(w) = <<>>) =>
                     landing_data'[k] = <<SENT>>]_vars


\* A step of collect_latest_data() in which takeoff fired.
TakeoffStep == TickCompleted /\ "takeoff" \in Range(events')

\* C18: when takeoff fires, the takeoff snapshot of every channel is the two
\* samples appended in the two ticks before this one (the last two of the
\* series as it was before the tick), without the sample of this tick, and
\* has two elements.
C18_TakeoffSnapshotPrecedes ==
    [][TakeoffStep =>
          /\ DOMAIN takeoff_data' = DOMAIN data_dict
          /\ \A k \in DOMAIN data_dict :
                /\ Len(data_dict[k]) >= 2
                /\ Len(takeoff_data'[k]) = 2
                /\ takeoff_data'[k] = LastN(data_dict[k], 2)
                /\ Len(data_dict'[k]) = Len(data_dict[k]) + 1]_vars

\* C18 witness: takeoff in the third tick, whose own sample is a failed read
\* while the snapshot holds the samples of ticks 1 and 2.
C18_Witness ==
    /\ events = <<"takeoff">>
    /\ data_dict["G_FORCE"] = <<SENT, Num(1), SENT>>
    /\ takeoff_data["G_FORCE"] = <<SENT, Num(1)>>


NothingAppended ==
    /\ Len(time_elapsed') <= Len(time_elapsed)
    /\ \A k \in DOMAIN data_dict \cap DOMAIN data_dict' :
          Len(data_dict'[k]) <= Len(data_dict[k])

\* C20: cleaning and export happen only in the stop, which has cleared the
\* recording flag and in which no tick runs; and while the recording flag is
\* false no step appends to a channel series or to the elapsed-time sequence,
\* whatever the order of record_loop, toggle_recording and reset_data.
C20_ExportAfterLastTick ==
    [][/\ (json_written' /\ json_file' # json_file) => (StopStep /\ ~recording')
       /\ StopStep => (NothingAppended /\ time_elapsed' = time_elapsed)
       /\ ~recording => NothingAppended
       /\ ~recording' => NothingAppended]_vars

\* C20 witness: a session of two ticks has been stopped and exported, and the
\* timer callback is still scheduled.
C20_Witness ==
    /\ ~recording
    /\ loop_scheduled
    /\ json_written
    /\ Len(time_elapsed) = 2
    /\ Len(json_file["ELAPSED_TIME"]) = 2


\* A step in which set_simvars() ran: each call of it follows the insertion
\* or the deletion of a row of the tree.
SetSimvarsStep == tree' # tree

\* The channels registered in the recorder changed in the step.
ChannelSetChanged ==
    \/ DOMAIN data_dict' # DOMAIN data_dict
    \/ DOMAIN name_dict' # DOMAIN name_dict
    \/ DOMAIN unit_dict' # DOMAIN unit_dict
    \/ data_keys' # data_keys

\* C21: set_simvars() runs, and the registered channel set changes, only
\* while no recording is active; and the removal of a row deletes the series,
\* the name and the unit of its channel.
C21_ChannelSetBetweenSessions ==
    [][/\ (SetSimvarsStep \/ ChannelSetChanged) => (~recording /\ ~recording')
       /\ \A k \in Range(KeysOf(tree)) \ Range(KeysOf(tree')) :
             /\ k \in DOMAIN data_dict
             /\ k \notin DOMAIN data_dict'
             /\ k \notin DOMAIN name_dict'
             /\ k \notin DOMAIN unit_dict']_vars

\* C21 witness: after a stopped session of two ticks the row of G_FORCE was
\* removed, and its series, name and unit with it.
C21_Witness ==
    /\ ~recording
    /\ Len(time_elapsed) = 2
    /\ "G_FORCE" \notin Range(KeysOf(tree))
    /\ "G_FORCE" \notin DOMAIN data_dict \cup DOMAIN name_dict \cup DOMAIN unit_dict


\* C22 as stated: after every tick the history has at most HistoryCap entries
\* and is the most recent (at most HistoryCap) airborne values observed in
\* the ticks of the session, in order.
C22_HistoryIsRecentObservations ==
    [][TickCompleted =>
          /\ Len(airborne_list') <= HistoryCap
          /\ airborne_list' = LastN(observed', HistoryCap)]_vars

\* C22 as amended: the history never has more than HistoryCap entries; a push
\* onto a full history drops the oldest entry; and the history is the most
\* recent (at most HistoryCap) entries of the sequence that starts with the
\* False reset() puts into it and goes on with the airborne values pushed in
\* the ticks of the session.
C22_HistoryBounded ==
    [][/\ Len(airborne_list) <= HistoryCap
       /\ Len(airborne_list') <= HistoryCap
       /\ TickCompleted =>
             /\ airborne_list' = LastN(<<FALSE>> \o observed', HistoryCap)
             /\ Last(airborne_list') = airborne'
             /\ Len(airborne_list) = HistoryCap =>
                   airborne_list' = Append(Tail(airborne_list), airborne')]_vars

\* C22 witness: the push of tick 101 found the history full and dropped the
\* oldest entry.
C22_Witness ==
    /\ Len(observed) = HistoryCap + 1
    /\ Len(airborne_list) = HistoryCap
    /\ airborne_list[HistoryCap] = TRUE
    /\ airborne_list[HistoryCap - 1] = FALSE
    /\ recording


\* C23 as stated: in a written document no field whose conversion failed is
\* present, and every channel is.
C23_FailedFieldDropped ==
    json_written =>
        /\ \A f \in json_diagnostics : f \notin DOMAIN json_file
        /\ \A k \in DOMAIN data_dict : k \in DOMAIN json_file

\* The landing fields the first loop of store_json() cannot convert.
LandingFieldsFailed ==
    {"LANDING_" \o k : k \in {j \in DOMAIN landing_data : ~HasToList(j)}}

\* C23 as amended: a failed conversion is reported and never aborts the
\* export.  A landing field that cannot be converted (LANDING_TIME) is left
\* out of the document; a field that is already in the document when its
\* conversion fails (ELAPSED_TIME, a converted landing field) stays in it with
\* its value; every channel series is written.
C23_FailedFieldReported ==
    json_written =>
        /\ LandingFieldsFailed \subseteq json_diagnostics
        /\ LandingFieldsFailed \cap DOMAIN json_file = {}
        /\ "ELAPSED_TIME" \in json_diagnostics \cap DOMAIN json_file
        /\ json_file["ELAPSED_TIME"] =
              [i \in 1..Len(time_elapsed) |-> Num(time_elapsed[i])]
        /\ \A k \in DOMAIN landing_data :
              HasToList(k) =>
                 /\ ("LANDING_" \o k) \in json_diagnostics \cap DOMAIN json_file
                 /\ json_file["LANDING_" \o k] = landing_data[k]
        /\ \A k \in DOMAIN data_dict :
              /\ k \in DOMAIN json_file \ json_diagnostics
              /\ json_file[k] = data_dict[k]

\* C23 witness: the document of a session that landed: LANDING_TIME was
\* reported and left out, ELAPSED_TIME reported and written.
C23_Witness ==
    /\ json_written
    /\ "LANDING_TIME" \in DOMAIN landing_data
    /\ "LANDING_LANDING_TIME" \in json_diagnostics
    /\ "LANDING_G_FORCE" \in DOMAIN json_file
    /\ "ELAPSED_TIME" \in DOMAIN json_file


\* C24: at every point of a session the events fired in it so far are those
\* fired, at the same ticks, by the session of a recorder that starts with
\* the airborne boolean cleared and is fed the same ground reads: the events
\* do not depend on the airborne value the session before ended with.
C24_EventsDependOnSessionReads ==
    /\ fired = ref.fired
    /\ status = ref.status


\* C25: a call of set_simvars() gives every new channel an empty series,
\* removes the channels that are no longer listed, and leaves the series, the
\* name and the unit of every channel that was registered and is still listed
\* as they were.
C25_SetSimvarsFrame ==
    [][SetSimvarsStep =>
          LET before == DOMAIN data_dict
              listed == Range(KeysOf(tree'))
          IN  /\ DOMAIN data_dict' = listed
              /\ \A k \in listed \ before : data_dict'[k] = <<>>
              /\ \A k \in listed \cap before :
                    /\ data_dict'[k] = data_dict[k]
                    /\ name_dict'[k] = name_dict[k]
                    /\ unit_dict'[k] = unit_dict[k]]_vars

=============================================================================
